---- MODULE Spec2Model ----
\* KaamTamam task store (src/app.py): the in-memory task list kept in the
\* Streamlit session state, its JSON persistence (load_data / save_data) and
\* the handlers that mutate it.
EXTENDS Integers, Sequences, FiniteSets, TLC

VARIABLES
    tasks,      \* st.session_state.tasks: sequence of task dicts
    next_id,    \* st.session_state.next_id
    disk,       \* content of DATA_FILE (tasks.json)
    last,       \* outcome of the handler that ran last (the res it returned)
    max_seen    \* largest id ever loaded into or assigned in the session

vars == <<tasks, next_id, disk, last, max_seen>>

-----------------------------------------------------------------------------
\* Bounds of the model

MaxTasks == 2       \* add_task is not explored beyond this many tasks
MaxNextId == 3      \* add_task is not explored beyond this counter value
MaxOrderTasks == 3  \* the same, where ids and order are explored (SpecOrder)
MaxBlobLen == 2     \* records in the "tasks" list of an initial blob
MaxLoadLen == 3     \* records in the "tasks" list of a blob given to load_data alone

-----------------------------------------------------------------------------
\* Python values.  Text is a sequence of one-character strings.

Max(a, b) == IF a >= b THEN a ELSE b
Min(a, b) == IF a <= b THEN a ELSE b

None == [t |-> "None"]
JNull == [t |-> "null"]
Missing == [t |-> "missing"]
JInt(n) == [t |-> "int", i |-> n]
JStr(s) == [t |-> "str", s |-> s]
JBool(b) == [t |-> "bool", b |-> b]
JList(xs) == [t |-> "list", items |-> xs]

\* dict.get(key, default)
Get(v, default) == IF v.t = "missing" THEN default ELSE v

DigitChars == <<"0", "1", "2", "3", "4", "5", "6", "7", "8", "9">>
IsDigit(c) == \E k \in 1..10 : DigitChars[k] = c
DigitVal(c) == (CHOOSE k \in 1..10 : DigitChars[k] = c) - 1

RECURSIVE NatOfDigits(_)
NatOfDigits(s) ==
    IF s = <<>> THEN 0
    ELSE 10 * NatOfDigits(SubSeq(s, 1, Len(s) - 1)) + DigitVal(s[Len(s)])

AllDigits(s) == Len(s) >= 1 /\ \A k \in 1..Len(s) : IsDigit(s[k])

RECURSIVE DigitsOfNat(_)
DigitsOfNat(n) ==
    IF n < 10 THEN <<DigitChars[n + 1]>>
    ELSE DigitsOfNat(n \div 10) \o <<DigitChars[(n % 10) + 1]>>

\* "%0<w>d" % n
RECURSIVE ZeroPad(_, _)
ZeroPad(s, w) == IF Len(s) >= w THEN s ELSE ZeroPad(<<"0">> \o s, w)

\* str.strip()
RECURSIVE LStrip(_)
LStrip(s) == IF s # <<>> /\ s[1] = " " THEN LStrip(Tail(s)) ELSE s
RECURSIVE RStrip(_)
RStrip(s) ==
    IF s # <<>> /\ s[Len(s)] = " " THEN RStrip(SubSeq(s, 1, Len(s) - 1)) ELSE s
Strip(s) == RStrip(LStrip(s))

\* str.lower()
LowerChar(c) ==
    CASE c = "A" -> "a"
      [] c = "B" -> "b"
      [] c = "C" -> "c"
      [] OTHER -> c
Lower(s) == [k \in 1..Len(s) |-> LowerChar(s[k])]

\* q in s  (substring test)
Contains(s, q) ==
    \E k \in 0..(Len(s) - Len(q)) : SubSeq(s, k + 1, k + Len(q)) = q

\* int(x): [ok |-> FALSE] stands for the exception it raises
PyInt(v) ==
    CASE v.t = "int" -> [ok |-> TRUE, i |-> v.i]
      [] v.t = "bool" -> [ok |-> TRUE, i |-> IF v.b THEN 1 ELSE 0]
      [] v.t = "str" ->
            LET s == Strip(v.s)
                neg == s # <<>> /\ s[1] = "-"
                body == IF s # <<>> /\ s[1] \in {"-", "+"} THEN Tail(s) ELSE s
            IN  IF AllDigits(body)
                THEN [ok |-> TRUE,
                      i |-> IF neg THEN 0 - NatOfDigits(body) ELSE NatOfDigits(body)]
                ELSE [ok |-> FALSE, i |-> 0]
      [] OTHER -> [ok |-> FALSE, i |-> 0]

\* bool(x)
PyBool(v) ==
    CASE v.t = "int" -> v.i # 0
      [] v.t = "bool" -> v.b
      [] v.t = "str" -> v.s # <<>>
      [] v.t = "list" -> v.items # <<>>
      [] OTHER -> FALSE

\* str(x)
PyStr(v) ==
    CASE v.t = "str" -> v.s
      [] v.t = "int" ->
            IF v.i < 0 THEN <<"-">> \o DigitsOfNat(0 - v.i) ELSE DigitsOfNat(v.i)
      [] v.t = "bool" ->
            IF v.b THEN <<"T", "r", "u", "e">> ELSE <<"F", "a", "l", "s", "e">>
      [] OTHER -> <<"N", "o", "n", "e">>

-----------------------------------------------------------------------------
\* Calendar dates

Date(y, m, d) == [t |-> "date", y |-> y, m |-> m, d |-> d]

IsLeap(y) == (y % 4 = 0 /\ y % 100 # 0) \/ y % 400 = 0
DaysInMonth(y, m) ==
    IF m = 2 THEN (IF IsLeap(y) THEN 29 ELSE 28)
    ELSE IF m \in {4, 6, 9, 11} THEN 30 ELSE 31

\* date.isoformat(): "YYYY-MM-DD"
isoformat(d) ==
    ZeroPad(DigitsOfNat(d.y), 4) \o <<"-">> \o ZeroPad(DigitsOfNat(d.m), 2)
        \o <<"-">> \o ZeroPad(DigitsOfNat(d.d), 2)

\* datetime.strptime(s, "%Y-%m-%d").date(); None stands for the exception.
\* %Y is four digits, %m and %d one or two digits, the date must exist.
strptime(v) ==
    IF v.t # "str" THEN None
    ELSE
        LET s == v.s
            dash == {k \in 6..Len(s) : s[k] = "-"}
        IN  IF Len(s) < 8 \/ s[5] # "-" \/ Cardinality(dash) # 1 THEN None
            ELSE
                LET p == CHOOSE k \in dash : TRUE
                    ys == SubSeq(s, 1, 4)
                    ms == SubSeq(s, 6, p - 1)
                    ds == SubSeq(s, p + 1, Len(s))
                IN  IF ~(AllDigits(ys) /\ AllDigits(ms) /\ AllDigits(ds)
                         /\ Len(ms) <= 2 /\ Len(ds) <= 2)
                    THEN None
                    ELSE
                        LET y == NatOfDigits(ys)
                            m == NatOfDigits(ms)
                            d == NatOfDigits(ds)
                        IN  IF y >= 1 /\ m \in 1..12 /\ d >= 1 /\ d <= DaysInMonth(y, m)
                            THEN Date(y, m, d)
                            ELSE None

-----------------------------------------------------------------------------
\* Persistence

EmptyStore == [tasks |-> <<>>, next_id |-> 1]

Absent == [t |-> "absent"]              \* DATA_FILE does not exist
Unparseable == [t |-> "unparseable"]    \* json.loads raises on the file's text

\* A file whose text is the JSON document `root`
JsonFile(root) == [t |-> "json", root |-> root]
JObj(ts, nid) == [t |-> "obj", tasks |-> ts, next_id |-> nid]
RawTask(id, title, done, due, priority, created) ==
    [t |-> "obj", id |-> id, title |-> title, done |-> done, due |-> due,
     priority |-> priority, created |-> created]

Task(id, title, done, due, priority, created) ==
    [id |-> id, title |-> title, done |-> done, due |-> due,
     priority |-> priority, created |-> created]

\* pr = 1 if pr < 1 else 3 if pr > 3 else pr
ClampLoad(pr) == IF pr < 1 THEN 1 ELSE IF pr > 3 THEN 3 ELSE pr

\* The body of the for loop of load_data over items[k..]: clean and seen are
\* the loop's accumulators.
RECURSIVE LoadLoop(_, _, _, _, _)
LoadLoop(items, k, clean, seen, now) ==
    IF k > Len(items) THEN clean
    ELSE
        LET t == items[k] IN
        IF t.t # "obj" THEN LoadLoop(items, k + 1, clean, seen, now)
        ELSE
            LET tid == PyInt(Get(t.id, JInt(0))) IN
            IF ~tid.ok THEN LoadLoop(items, k + 1, clean, seen, now)
            ELSE IF tid.i <= 0 \/ tid.i \in seen
            THEN LoadLoop(items, k + 1, clean, seen, now)
            ELSE
                LET title == Strip(PyStr(Get(t.title, JStr(<<>>)))) IN
                IF title = <<>>
                THEN LoadLoop(items, k + 1, clean, seen \cup {tid.i}, now)
                ELSE
                    LET done == PyBool(Get(t.done, JBool(FALSE)))
                        due_raw == Get(t.due, JNull)
                        due == IF PyBool(due_raw) THEN strptime(due_raw) ELSE None
                        pri == PyInt(Get(t.priority, JInt(2)))
                        pr == ClampLoad(IF pri.ok THEN pri.i ELSE 2)
                        cr == Get(t.created, JNull)
                        created == IF PyBool(cr) THEN cr ELSE JStr(now)
                    IN  LoadLoop(items, k + 1,
                                 Append(clean, Task(tid.i, title, done, due, pr, created)),
                                 seen \cup {tid.i}, now)

\* load_data(): the (tasks, next_id) it returns for the file content dk, read
\* at clock reading now.
load_data(dk, now) ==
    IF dk.t # "json" THEN EmptyStore
    ELSE IF dk.root.t # "obj" THEN EmptyStore
    ELSE
        LET raw == Get(dk.root.tasks, JList(<<>>))
            nid == PyInt(Get(dk.root.next_id, JInt(1)))
        IN  IF raw.t \notin {"list", "str"} THEN EmptyStore
            ELSE IF ~nid.ok THEN EmptyStore
            ELSE [tasks |-> IF raw.t = "list"
                            THEN LoadLoop(raw.items, 1, <<>>, {}, now)
                            ELSE <<>>,
                  next_id |-> nid.i]

Serial(t, now) ==
    RawTask(JInt(t.id), JStr(t.title), JBool(t.done),
            JStr(IF t.due # None THEN isoformat(t.due) ELSE <<>>),
            JInt(t.priority),
            IF PyBool(t.created) THEN t.created ELSE JStr(now))

\* save_data(tasks, next_id): the file content after write_text has returned
save_data(ts, nid, now) ==
    JsonFile(JObj(JList([k \in 1..Len(ts) |-> Serial(ts[k], now)]), JInt(nid)))

-----------------------------------------------------------------------------
\* Handlers.  Each takes the session state and the file content and returns
\* them as the handler leaves them, with res: "ok" (the change was made and
\* written), "warn_empty" / "warn_exists" (st.warning and return), "miss" (no
\* task has the id) or "noop".

Result(ts, nid, dk, res) == [tasks |-> ts, next_id |-> nid, disk |-> dk, res |-> res]

\* Index of the first task with id tid, 0 when there is none
FirstIdx(ts, tid) ==
    IF \E k \in 1..Len(ts) : ts[k].id = tid
    THEN CHOOSE k \in 1..Len(ts) :
            ts[k].id = tid /\ \A j \in 1..(k - 1) : ts[j].id # tid
    ELSE 0

add_task_no_return(ts, nid, dk, title, due, priority, now) ==
    LET tl == Strip(title)
        task == Task(nid, tl, FALSE, due, priority, JStr(now))
        warn == IF tl = <<>> THEN "warn_empty"
                ELSE IF \E k \in 1..Len(ts) : Lower(ts[k].title) = Lower(tl)
                THEN "warn_exists" ELSE "ok"
    IN  Result(Append(ts, task), nid + 1,
               save_data(Append(ts, task), nid + 1, now), warn)

add_task(ts, nid, dk, title, due, priority, now) ==
    LET tl == Strip(title)
        task == Task(nid, tl, FALSE, due, priority, JStr(now))
    IN  IF tl = <<>> THEN Result(ts, nid, dk, "warn_empty")
        ELSE IF \E k \in 1..Len(ts) : Lower(ts[k].title) = Lower(tl)
        THEN Result(ts, nid, dk, "warn_exists")
        ELSE Result(Append(ts, task), nid + 1,
                    save_data(Append(ts, task), nid + 1, now), "ok")

mark_done_no_save(ts, nid, dk, tid, value, now) ==
    LET k == FirstIdx(ts, tid) IN
    IF k = 0 THEN Result(ts, nid, dk, "miss")
    ELSE Result([ts EXCEPT ![k].done = value], nid, dk, "ok")

mark_done(ts, nid, dk, tid, value, now) ==
    LET k == FirstIdx(ts, tid) IN
    IF k = 0 THEN Result(ts, nid, dk, "miss")
    ELSE LET new == [ts EXCEPT ![k].done = value]
         IN  Result(new, nid, save_data(new, nid, now), "ok")

delete_task(ts, nid, dk, tid, now) ==
    LET keep(t) == t.id # tid
        new == SelectSeq(ts, keep)
    IN  Result(new, nid, save_data(new, nid, now), "ok")

edit_title(ts, nid, dk, tid, new_title, now) ==
    LET tl == Strip(new_title)
        k == FirstIdx(ts, tid)
    IN  IF tl = <<>> THEN Result(ts, nid, dk, "warn_empty")
        ELSE IF k = 0 THEN Result(ts, nid, dk, "miss")
        ELSE LET new == [ts EXCEPT ![k].title = tl]
             IN  Result(new, nid, save_data(new, nid, now), "ok")

set_due(ts, nid, dk, tid, due, now) ==
    LET k == FirstIdx(ts, tid) IN
    IF k = 0 THEN Result(ts, nid, dk, "miss")
    ELSE LET new == [ts EXCEPT ![k].due = due]
         IN  Result(new, nid, save_data(new, nid, now), "ok")

clear_due(ts, nid, dk, tid, now) == set_due(ts, nid, dk, tid, None, now)

set_priority(ts, nid, dk, tid, p, now) ==
    LET pc == Max(1, Min(3, p))
        k == FirstIdx(ts, tid)
    IN  IF k = 0 THEN Result(ts, nid, dk, "miss")
        ELSE LET new == [ts EXCEPT ![k].priority = pc]
             IN  Result(new, nid, save_data(new, nid, now), "ok")

\* The sidebar's status filter and title search, as the drag-and-drop block
\* and the list apply them
Visible(t, status, search) ==
    /\ (status = "Pending" => ~t.done)
    /\ (status = "Done" => t.done)
    /\ (search # <<>> => Contains(Lower(t.title), Lower(search)))

FilterView(ts, status, search) ==
    LET keep(t) == Visible(t, status, search) IN SelectSeq(ts, keep)

\* str(t["id"])
IdStr(id) == PyStr(JInt(id))

\* ids = [str(t["id"]) for t in drag_view]
ViewIds(ts, status, search) ==
    LET v == FilterView(ts, status, search) IN [k \in 1..Len(v) |-> IdStr(v[k].id)]

\* The drag-and-drop block, new_order being what sort_items returned
reorder(ts, nid, dk, status, search, new_order, now) ==
    LET ids == ViewIds(ts, status, search) IN
    IF new_order = <<>> \/ new_order = ids THEN Result(ts, nid, dk, "noop")
    ELSE
        LET known(i) == \E k \in 1..Len(ts) : IdStr(ts[k].id) = i
            \* a dict comprehension keeps the last task of each key
            id_to_task(i) ==
                ts[CHOOSE k \in 1..Len(ts) :
                        /\ IdStr(ts[k].id) = i
                        /\ \A j \in (k + 1)..Len(ts) : IdStr(ts[j].id) # i]
            visible_ids_set == {ids[k] : k \in 1..Len(ids)}
            picked == SelectSeq(new_order, known)
            visible_tasks == [k \in 1..Len(picked) |-> id_to_task(picked[k])]
            hidden(t) == IdStr(t.id) \notin visible_ids_set
            hidden_tasks == SelectSeq(ts, hidden)
            new == visible_tasks \o hidden_tasks
        IN  Result(new, nid, save_data(new, nid, now), "ok")

mark_all_done(ts, nid, dk, now) ==
    LET new == [k \in 1..Len(ts) |-> [ts[k] EXCEPT !.done = TRUE]]
    IN  Result(new, nid, save_data(new, nid, now), "ok")

clear_completed(ts, nid, dk, now) ==
    LET keep(t) == ~t.done
        new == SelectSeq(ts, keep)
    IN  Result(new, nid, save_data(new, nid, now), "ok")

reload_from_disk(ts, nid, dk, now) ==
    LET l == load_data(dk, now) IN Result(l.tasks, l.next_id, dk, "loaded")

-----------------------------------------------------------------------------
\* Inputs

\* Clock readings, as datetime.now().isoformat(timespec="seconds") texts
Clock == {<<"t", "1">>}

TitleInputs == {<<" ">>, <<"a">>, <<"A", " ">>, <<" ", "b">>}
DueInputs == {None, Date(2024, 1, 5)}
AddPriorityInputs == {2, 7}
SetPriorityInputs == {7}
StatusInputs == {"All", "Pending", "Done"}
SearchInputs == {<<>>, <<"A">>}
TidInputs == 1..MaxNextId

\* Sequences over S of length at most n
RECURSIVE SeqsUpTo(_, _)
SeqsUpTo(S, n) ==
    IF n = 0 THEN {<<>>}
    ELSE LET shorter == SeqsUpTo(S, n - 1)
         IN  shorter \cup {Append(q, x) : q \in {r \in shorter : Len(r) = n - 1}, x \in S}

NoDup(q) == \A j, k \in 1..Len(q) : j # k => q[j] # q[k]

\* The orders of the list ids that differ from it only by position
OrdersOf(ids) ==
    {[k \in 1..Len(ids) |-> ids[f[k]]] :
        f \in {g \in [1..Len(ids) -> 1..Len(ids)] :
                 \A j, k \in 1..Len(ids) : j # k => g[j] # g[k]}}

\* Raw records of a persisted blob
Iso1 == <<"2", "0", "2", "4", "-", "0", "1", "-", "0", "5">>
Iso1Loose == <<"2", "0", "2", "4", "-", "1", "-", "5">>
IsoBad == <<"2", "0", "2", "3", "-", "0", "2", "-", "3", "0">>
Stamp1 == JStr(<<"t", "1">>)
Stamp0 == JStr(<<"t", "0">>)

RecA == RawTask(JInt(1), JStr(<<"a">>), JBool(TRUE), JStr(Iso1), JInt(2), Stamp1)
RecB == RawTask(JStr(<<"2">>), JStr(<<" ", "b">>), Missing, JStr(Iso1Loose), JInt(7), Missing)
RecDupId == RawTask(JInt(1), JStr(<<"b">>), JInt(0), JStr(<<>>), JStr(<<"x">>), JNull)
RecNotObj == JStr(<<"x">>)

InitRecords == {RecA, RecB, RecDupId, RecNotObj}
InitNextIds == {Missing, JInt(3)}

\* The file contents a session can start from
InitBlobs ==
    {Absent, Unparseable}
        \cup {JsonFile(JObj(JList(q), n)) :
                q \in SeqsUpTo(InitRecords, MaxBlobLen), n \in InitNextIds}

-----------------------------------------------------------------------------
\* The session

MaxIdOf(ts, floor) ==
    IF ts = <<>> THEN floor
    ELSE LET top == CHOOSE k \in 1..Len(ts) : \A j \in 1..Len(ts) : ts[j].id <= ts[k].id
         IN  Max(floor, ts[top].id)

\* The session state and the file become what the handler returned
Apply(r) ==
    /\ tasks' = r.tasks
    /\ next_id' = r.next_id
    /\ disk' = r.disk
    /\ last' = r.res
    /\ max_seen' = MaxIdOf(r.tasks, max_seen)

\* First run of the script: session_state is filled from load_data()
Start(blobs) ==
    /\ disk \in blobs
    /\ \E now \in Clock :
        /\ tasks = load_data(disk, now).tasks
        /\ next_id = load_data(disk, now).next_id
    /\ last = "start"
    /\ max_seen = MaxIdOf(tasks, 0)

Init == Start(InitBlobs)

\* The "Add Task" button; cap bounds the exploration
AddTask(cap, titles, dues, priorities) ==
    /\ Len(tasks) < cap
    /\ next_id < MaxNextId
    /\ \E title \in titles, due \in dues, priority \in priorities, now \in Clock :
            Apply(add_task(tasks, next_id, disk, title, due, priority, now))

MarkDone ==
    \E tid \in TidInputs, value \in BOOLEAN, now \in Clock :
        Apply(mark_done(tasks, next_id, disk, tid, value, now))

DeleteTask ==
    \E tid \in TidInputs, now \in Clock :
        Apply(delete_task(tasks, next_id, disk, tid, now))

EditTitle ==
    \E tid \in TidInputs, new_title \in TitleInputs, now \in Clock :
        Apply(edit_title(tasks, next_id, disk, tid, new_title, now))

SetDue ==
    \E tid \in TidInputs, due \in DueInputs \ {None}, now \in Clock :
        Apply(set_due(tasks, next_id, disk, tid, due, now))

ClearDue ==
    \E tid \in TidInputs, now \in Clock :
        Apply(clear_due(tasks, next_id, disk, tid, now))

SetPriority ==
    \E tid \in TidInputs, p \in SetPriorityInputs, now \in Clock :
        Apply(set_priority(tasks, next_id, disk, tid, p, now))

\* What sort_items can return that is no order of the ids it was given: an
\* order of other ids of the store, the value the component kept from an
\* earlier run (other filter, other tasks)
StaleOrders(ts, status, search) ==
    {q \in SeqsUpTo({IdStr(ts[k].id) : k \in 1..Len(ts)}, Len(ts)) : NoDup(q)}
        \ OrdersOf(ViewIds(ts, status, search))

\* sort_items returns the visible ids in the order the user dragged them to.
\* The merged list can be longer than the list was; cap bounds the exploration.
Reorder(cap) ==
    \E status \in StatusInputs, search \in SearchInputs, now \in Clock :
        \E new_order \in OrdersOf(ViewIds(tasks, status, search)) :
            LET r == reorder(tasks, next_id, disk, status, search, new_order, now)
            IN  /\ Len(r.tasks) <= cap
                /\ Apply(r)

\* sort_items returns a stale order
ReorderStale(cap) ==
    \E status \in StatusInputs, search \in SearchInputs, now \in Clock :
        \E new_order \in StaleOrders(tasks, status, search) :
            LET r == reorder(tasks, next_id, disk, status, search, new_order, now)
            IN  /\ Len(r.tasks) <= cap
                /\ Apply(r)

MarkAllDone ==
    \E now \in Clock :
        Apply(mark_all_done(tasks, next_id, disk, now))

ClearCompleted ==
    \E now \in Clock :
        Apply(clear_completed(tasks, next_id, disk, now))

ReloadFromDisk ==
    \E now \in Clock :
        Apply(reload_from_disk(tasks, next_id, disk, now))

Next ==
    \/ AddTask(MaxTasks, TitleInputs, DueInputs, AddPriorityInputs)
    \/ MarkDone
    \/ DeleteTask
    \/ EditTitle
    \/ SetDue
    \/ ClearDue
    \/ SetPriority
    \/ Reorder(MaxTasks)
    \/ ReorderStale(MaxTasks)
    \/ MarkAllDone
    \/ ClearCompleted
    \/ ReloadFromDisk

Spec == Init /\ [][Next]_vars

-----------------------------------------------------------------------------
\* Properties of the store

Ids(ts) == [k \in 1..Len(ts) |-> ts[k].id]

\* C1: in every reachable state the ids of the tasks in memory are positive
\* and pairwise distinct.
C1_IdsPositiveAndDistinct ==
    \A j, k \in 1..Len(tasks) :
        /\ tasks[k].id > 0
        /\ (j # k => tasks[j].id # tasks[k].id)

\* C2: every task in memory has its priority in {1, 2, 3} in every reachable
\* state (create, the priority update and load all clamp).
C2_PriorityInRange == \A k \in 1..Len(tasks) : tasks[k].priority \in {1, 2, 3}

\* C3: when the last handler made its change and wrote it, the file holds the
\* tasks in memory, in their order, and next_id.
C3_WriteLeavesFileEqualToMemory ==
    last = "ok" => \A now \in Clock : disk = save_data(tasks, next_id, now)

C3_Witness ==
    /\ last = "ok"
    /\ Len(tasks) = 2
    /\ tasks[1].done /\ ~tasks[2].done
    /\ tasks[2].due # None

\* C4: load_data of the file save_data writes for the session's tasks and
\* next_id returns the same tasks, field for field and in order, and next_id.
C4_SaveLoadRoundTrip ==
    \A now \in Clock :
        load_data(save_data(tasks, next_id, now), now)
            = [tasks |-> tasks, next_id |-> next_id]

\* C5: a handler that ends in a validation warning (empty title on create or
\* edit, duplicate title on create) leaves tasks, next_id and the file as
\* they were.
C5_WarningChangesNothing ==
    [][last' \in {"warn_empty", "warn_exists"}
          => tasks' = tasks /\ next_id' = next_id /\ disk' = disk]_vars

C5_Witness ==
    /\ last = "warn_exists"
    /\ Len(tasks) >= 1
    /\ disk.t = "json"

\* C6: a create that succeeds gives the new task an id greater than every id
\* loaded or assigned earlier in the session.
C6_CreateIdAboveEarlierIds ==
    [][\A title \in TitleInputs, due \in DueInputs, priority \in AddPriorityInputs,
          now \in Clock :
            LET r == add_task(tasks, next_id, disk, title, due, priority, now)
            IN  (r.res = "ok" /\ last' = "ok" /\ tasks' = r.tasks
                    /\ next_id' = r.next_id /\ disk' = r.disk)
                => r.tasks[Len(r.tasks)].id > max_seen]_vars

-----------------------------------------------------------------------------
\* The ids and the order of the tasks: three tasks, no due dates, one
\* priority, sort_items returning only orders of the ids it was given

RecP == RawTask(JInt(1), JStr(<<"a">>), JBool(TRUE), JStr(<<>>), JInt(2), Stamp1)
RecQ == RawTask(JInt(2), JStr(<<"b">>), JBool(FALSE), JStr(<<>>), JInt(2), Stamp1)

OrderTitleInputs == {<<"a">>, <<" ", "b">>, <<"c">>}

OrderBlobs ==
    {Absent}
        \cup {JsonFile(JObj(JList(q), n)) :
                q \in SeqsUpTo({RecP, RecQ}, MaxBlobLen), n \in InitNextIds}

InitOrder == Start(OrderBlobs)

NextOrder ==
    \/ AddTask(MaxOrderTasks, OrderTitleInputs, {None}, {2})
    \/ MarkDone
    \/ DeleteTask
    \/ EditTitle
    \/ Reorder(MaxOrderTasks)
    \/ MarkAllDone
    \/ ClearCompleted
    \/ ReloadFromDisk

SpecOrder == InitOrder /\ [][NextOrder]_vars

\* The tasks of ts the filter and the search leave out, in their order
HiddenView(ts, status, search) ==
    LET out(t) == ~Visible(t, status, search) IN SelectSeq(ts, out)

Count(ts, x) == Cardinality({k \in 1..Len(ts) : ts[k] = x})
IsPermutation(a, b) ==
    /\ Len(a) = Len(b)
    /\ \A k \in 1..Len(a) : Count(a, a[k]) = Count(b, a[k])

\* This step is the drag-and-drop block run with these inputs
ReorderStep(status, search, new_order) ==
    \E now \in Clock :
        LET r == reorder(tasks, next_id, disk, status, search, new_order, now)
        IN  r.res = "ok" /\ last' = "ok" /\ tasks' = r.tasks /\ disk' = r.disk

\* C7: after a reorder with a new order of the visible ids, the visible tasks
\* come first, in the new order, and the tasks outside the view follow them
\* in the order they had.
C7_ReorderVisibleFirstHiddenKept ==
    [][\A status \in StatusInputs, search \in SearchInputs :
        \A new_order \in OrdersOf(ViewIds(tasks, status, search)) :
            ReorderStep(status, search, new_order) =>
                LET vis == FilterView(tasks, status, search)
                    hid == HiddenView(tasks, status, search)
                    n == Len(new_order)
                IN  /\ Len(tasks') = n + Len(hid)
                    /\ SubSeq(tasks', n + 1, Len(tasks')) = hid
                    /\ \A k \in 1..n :
                        /\ IdStr(tasks'[k].id) = new_order[k]
                        /\ \E j \in 1..Len(vis) : vis[j] = tasks'[k]]_vars

\* C10: whatever order sort_items returns, an order of the visible ids or a
\* stale one, the tasks after the reorder are a permutation of the tasks
\* before it.
C10_ReorderIsPermutation ==
    [][\A status \in StatusInputs, search \in SearchInputs :
        \A new_order \in OrdersOf(ViewIds(tasks, status, search))
                            \cup StaleOrders(tasks, status, search) :
            ReorderStep(status, search, new_order) => IsPermutation(tasks, tasks')]_vars

-----------------------------------------------------------------------------
\* load_data alone, on blobs with malformed records and malformed next_id

RecZeroId == RawTask(JInt(0), JStr(<<"a">>), JBool(FALSE), JNull, JInt(1), Stamp0)
RecNoId == RawTask(Missing, JStr(<<"a">>), JBool(FALSE), JNull, JInt(1), Stamp0)
RecBadId == RawTask(JStr(<<"x">>), JStr(<<"a">>), JBool(FALSE), JNull, JInt(1), Stamp0)
RecBlank == RawTask(JInt(3), JStr(<<" ">>), JBool(FALSE), JStr(IsoBad), JInt(3), Stamp0)
RecC == RawTask(JInt(3), JInt(7), JStr(<<"y">>), JStr(IsoBad), JNull, JStr(<<>>))

LoadRecords ==
    {RecA, RecB, RecDupId, RecZeroId, RecNoId, RecBadId, RecBlank, RecC, RecNotObj}
LoadNextIds == {Missing, JInt(3), JStr(<<"4">>), JStr(<<"x">>), JNull}

LoadBlobs ==
    {Absent, Unparseable, JsonFile(JList(<<>>)), JsonFile(JObj(JNull, JInt(1))),
     JsonFile(JObj(JStr(<<"x">>), JInt(2))), JsonFile(JObj(Missing, Missing))}
        \cup {JsonFile(JObj(JList(q), n)) :
                q \in SeqsUpTo(LoadRecords, MaxLoadLen), n \in LoadNextIds}

InitLoad == Start(LoadBlobs)
NextLoad == ReloadFromDisk
SpecLoad == InitLoad /\ [][NextLoad]_vars

\* The id of a raw record, as int() reads it
RawId(rec) == PyInt(Get(rec.id, JInt(0)))

\* Record k of a raw list is well-formed: an object whose id is an integer
\* above 0 that no earlier record has, and whose title is not blank
WellFormedAt(items, k) ==
    /\ items[k].t = "obj"
    /\ RawId(items[k]).ok
    /\ RawId(items[k]).i > 0
    /\ Strip(PyStr(Get(items[k].title, JStr(<<>>)))) # <<>>
    /\ ~\E j \in 1..(k - 1) :
            /\ items[j].t = "obj"
            /\ RawId(items[j]).ok
            /\ RawId(items[j]).i = RawId(items[k]).i

WellFormedIds(items) ==
    LET wf(k) == WellFormedAt(items, k)
        idx == SelectSeq([k \in 1..Len(items) |-> k], wf)
    IN  [j \in 1..Len(idx) |-> RawId(items[idx[j]]).i]

\* C8: for a file that parses and holds a list of records, what load_data
\* returned is every well-formed record of the list, in the list's order, and
\* nothing else; the malformed ones alone are left out.
C8_LoadKeepsEveryWellFormedRecord ==
    (/\ last \in {"start", "loaded"}
     /\ disk.t = "json"
     /\ disk.root.t = "obj"
     /\ disk.root.tasks.t = "list")
        => Ids(tasks) = WellFormedIds(disk.root.tasks.items)

-----------------------------------------------------------------------------
\* The process dies inside a handler that writes

\* write_text has opened the file, which empties it, and not yet written all
\* of the text: json.loads raises on what the file holds
Truncated == [t |-> "truncated"]

\* What the handlers of NextCrash would write from the current state
PendingWrites ==
    {r \in {mark_done(tasks, next_id, disk, tid, value, now) :
                tid \in TidInputs, value \in BOOLEAN, now \in Clock}
            \cup {delete_task(tasks, next_id, disk, tid, now) :
                    tid \in TidInputs, now \in Clock}
            \cup {add_task(tasks, next_id, disk, title, None, 2, now) :
                    title \in TitleInputs, now \in Clock} :
        r.res = "ok"}

\* The process is killed before, during or after the write_text of save_data;
\* the next run of the script starts a new session from load_data()
Crash ==
    \E r \in PendingWrites, phase \in {"before_write", "in_write", "after_write"},
       now \in Clock :
        /\ disk' = CASE phase = "before_write" -> disk
                     [] phase = "in_write" -> Truncated
                     [] OTHER -> r.disk
        /\ tasks' = load_data(disk', now).tasks
        /\ next_id' = load_data(disk', now).next_id
        /\ last' = "crashed"
        /\ max_seen' = MaxIdOf(tasks', 0)

InitCrash == Start(OrderBlobs)

NextCrash ==
    \/ AddTask(MaxTasks, TitleInputs, {None}, {2})
    \/ MarkDone
    \/ DeleteTask
    \/ ReloadFromDisk
    \/ Crash

SpecCrash == InitCrash /\ [][NextCrash]_vars

\* C9: a crash in a handler or in its save leaves in the file the whole
\* previous snapshot or the whole new one.
C9_CrashLeavesWholeSnapshot ==
    [][last' = "crashed"
          => (disk' = disk \/ \E r \in PendingWrites : disk' = r.disk)]_vars

-----------------------------------------------------------------------------
\* A rerun of the script in which the user touches no widget: the list of
\* task rows is rendered again

Today == Date(2024, 1, 6)
SortInputs == {"ID", "Priority"}

\* The key the list is sorted by: the id, or the priority with High first
SortKey(t, sort_by) == IF sort_by = "ID" THEN t.id ELSE 0 - t.priority

RECURSIVE InsertByKey(_, _, _)
InsertByKey(s, x, sort_by) ==
    IF s = <<>> THEN <<x>>
    ELSE IF SortKey(x, sort_by) < SortKey(Head(s), sort_by) THEN <<x>> \o s
    ELSE <<Head(s)>> \o InsertByKey(Tail(s), x, sort_by)

\* sorted(view, key=...): stable, equal keys keep their order
RECURSIVE sorted(_, _)
sorted(s, sort_by) ==
    IF s = <<>> THEN <<>>
    ELSE InsertByKey(sorted(SubSeq(s, 1, Len(s) - 1), sort_by), s[Len(s)], sort_by)

RenderView(ts, status, search, sort_by) ==
    sorted(FilterView(ts, status, search), sort_by)

\* The rows of the view, top to bottom, every widget returning the value it
\* was given: the checkbox t.done, the title input t.title, the selectbox
\* t.priority (index = priority - 1 raises outside 1..3 and ends the run),
\* the date input due_val = t.due or today. The first row whose due differs
\* from what its date input returned calls set_due and reruns.
RECURSIVE render_rows(_, _, _, _, _, _)
render_rows(view, ts, nid, dk, today, now) ==
    IF view = <<>> THEN Result(ts, nid, dk, "idle")
    ELSE LET t == Head(view) IN
         IF t.priority \notin {1, 2, 3} THEN Result(ts, nid, dk, "raised")
         ELSE LET due_val == IF t.due # None THEN t.due ELSE today
                  due_new == due_val
              IN  IF t.due # due_new
                  THEN LET r == set_due(ts, nid, dk, t.id, due_new, now)
                       IN  Result(r.tasks, r.next_id, r.disk, "rerun")
                  ELSE render_rows(Tail(view), ts, nid, dk, today, now)

Render ==
    \E status \in StatusInputs, search \in SearchInputs, sort_by \in SortInputs,
       now \in Clock :
        Apply(render_rows(RenderView(tasks, status, search, sort_by),
                          tasks, next_id, disk, Today, now))

InitRender == Start(OrderBlobs)

NextRender ==
    \/ AddTask(MaxTasks, TitleInputs, DueInputs, AddPriorityInputs)
    \/ MarkDone
    \/ DeleteTask
    \/ SetDue
    \/ ClearDue
    \/ Render

SpecRender == InitRender /\ [][NextRender]_vars

\* C11: a rerun in which the user changes no widget leaves every task that
\* has no due date without a due date.
C11_AbsentDueStableUnderRerun ==
    [][last' \in {"idle", "raised", "rerun"}
          => /\ Len(tasks') = Len(tasks)
             /\ \A k \in 1..Len(tasks) :
                    tasks[k].due = None => tasks'[k].due = None]_vars

====
